---------------------------- MODULE Spec2Model ----------------------------
(***************************************************************************)
(* diskio: a write/sync micro-benchmark (src/main.rs, src/stats.rs).       *)
(*                                                                         *)
(* Four specifications share this module:                                  *)
(*   SpecArgs   the size-argument parser and its expansion (SizeArg)       *)
(*   SpecStats  the statistics collector as a writer feeds it (click)      *)
(*   SpecJoin   the merge of two collectors (Stats::join)                  *)
(*   Spec       main(): the sweep loop, the writer threads and TOTAL       *)
(*                                                                         *)
(* Text is a sequence of one-character strings.  Option<T> is a sequence   *)
(* of length 0 (None) or 1 (Some).  Result<T, E> is a record with an ok    *)
(* field.  isize values are TLC integers; every input is drawn so that no  *)
(* product leaves TLC's 32-bit range, and a menu entry m * 1024^e is kept  *)
(* in factored form <<m, e>> and compared by exact floor division.         *)
(***************************************************************************)
EXTENDS Integers, Sequences, FiniteSets, TLC

VARIABLES
    \* SpecArgs
    argText,      \* the text handed to SizeArg::from_str
    parsed,       \* its result, once from_str has run
    blocks,       \* get_blocks() of the parsed argument
    datas,        \* get_datas() of the parsed argument
    pcArgs,       \* "parse" | "expand" | "done" | "off"
    \* SpecStats
    clock,        \* the system clock, in whole seconds
    st,           \* a writer's collector (the `stats` of writer_thread)
    agg,          \* the collector the others are merged into (the `ss` of main)
    startTime,    \* the start_time the writer captured for its next click
    last,         \* the last call made on a collector, with what it saw
    \* Spec
    argv,         \* the command line: block-size and data-size texts, threads
    opt,          \* Opt, once the command line is parsed
    xs,           \* main's list of (dsize, bsize) sweep points
    ix,           \* position in xs of the sweep point being run
    pcMain,       \* where the main thread is
    spawnI,       \* the spawn loop's i
    joinI,        \* the join loop's i
    worker,       \* worker[i]: the writer thread spawned for index i
    files,        \* files[i]: whether diskio-<i>.data exists
    ss,           \* main's aggregate collector
    TOTAL         \* the shared byte counter

argVars == <<argText, parsed, blocks, datas, pcArgs>>

statVars == <<clock, st, agg, startTime, last>>

mainVars == <<argv, opt, xs, ix, pcMain, spawnI, joinI, worker, files, ss,
              TOTAL>>

vars == <<argText, parsed, blocks, datas, pcArgs,
          clock, st, agg, startTime, last,
          argv, opt, xs, ix, pcMain, spawnI, joinI, worker, files, ss, TOTAL>>

---------------------------------------------------------------------------
(* Bounds of the model *)

\* longest argument text SpecArgs enumerates
MaxLen == 6

\* SpecStats: the clock runs from 0 to MaxClock
MaxClock == 2

\* SpecStats: calls of click on one collector
MaxClicks == 4

\* SpecJoin: samples in a sequence of a collector
MaxSamples == 2

\* SpecStats: the sizes handed to click are 1..MaxSize
MaxSize == 2

\* Spec: the thread counts are 1..MaxThreads
MaxThreads == 2

\* Spec: write operations all the workers of a sweep point need together
MaxTotalOps == 4

\* Spec: elapsed() on the window boundary returns 0..MaxElapsed seconds
MaxElapsed == 2

\* Spec: elapsed() on a start time returns 1..MaxLatency microseconds
MaxLatency == 2

\* SpecLoop: the quotas are 0..MaxQuota
MaxQuota == 4

\* largest integer TLC represents
IntMax == 1024 * 1024 * 1024 + (1024 * 1024 * 1024 - 1)

---------------------------------------------------------------------------
(* Option and Result *)

None == <<>>
Some(v) == <<v>>
Ok(v) == [ok |-> TRUE, val |-> v]
Err(e) == [ok |-> FALSE, err |-> e]

---------------------------------------------------------------------------
(* src/main.rs: the regular expressions ARG_RE1 and ARG_RE2 *)

IsDigit(c) == c \in {"0", "1", "2", "3", "4", "5", "6", "7", "8", "9"}

\* the character class [kKmMgG]
IsUnit(c) == c \in {"k", "K", "m", "M", "g", "G"}

\* first position at or after i that holds no digit
RECURSIVE DigitsEnd(_, _)
DigitsEnd(s, i) ==
    IF i <= Len(s) /\ IsDigit(s[i]) THEN DigitsEnd(s, i + 1) ELSE i

\* [0-9]+[kKmMgG]? matched at position i: the position after the match, 0
\* when there is none.  What may follow a size (".", "," or the end) is
\* neither a digit nor a unit, so the greedy match is the only one.
MatchSize(s, i) ==
    LET j == DigitsEnd(s, i) IN
    IF j = i THEN 0
    ELSE IF j <= Len(s) /\ IsUnit(s[j]) THEN j + 1 ELSE j

\* ^([0-9]+[kKmMgG]?)(\.\.[0-9]+[kKmMgG]?)?$ : the captures, or None
ARG_RE1(s) ==
    LET p == MatchSize(s, 1) IN
    IF p = 0 THEN None
    ELSE IF p = Len(s) + 1
         THEN Some([g1 |-> SubSeq(s, 1, p - 1), g2 |-> None])
    ELSE IF /\ p + 1 <= Len(s)
            /\ s[p] = "."
            /\ s[p + 1] = "."
            /\ MatchSize(s, p + 2) = Len(s) + 1
         THEN Some([g1 |-> SubSeq(s, 1, p - 1),
                    g2 |-> Some(SubSeq(s, p, Len(s)))])
    ELSE None

\* (,[0-9]+[kKmMgG]?)* matched at position i, up to the end of the text
RECURSIVE MatchTail(_, _)
MatchTail(s, i) ==
    IF i = Len(s) + 1 THEN TRUE
    ELSE IF s[i] = "," /\ MatchSize(s, i + 1) # 0
         THEN MatchTail(s, MatchSize(s, i + 1))
    ELSE FALSE

\* ^([0-9]+[kKmMgG]?)(,[0-9]+[kKmMgG]?)*$ : capture 0 (the text), or None
ARG_RE2(s) ==
    LET p == MatchSize(s, 1) IN
    IF p # 0 /\ MatchTail(s, p) THEN Some(s) ELSE None

---------------------------------------------------------------------------
(* src/main.rs: SizeArg *)

SizeArgNone == [tag |-> "None"]
SizeArgRange(x, y) == [tag |-> "Range", x |-> x, y |-> y]
SizeArgList(sizes) == [tag |-> "List", sizes |-> sizes]

DigitVal(c) ==
    CASE c = "0" -> 0 [] c = "1" -> 1 [] c = "2" -> 2 [] c = "3" -> 3
      [] c = "4" -> 4 [] c = "5" -> 5 [] c = "6" -> 6 [] c = "7" -> 7
      [] c = "8" -> 8 [] c = "9" -> 9

RECURSIVE DigitsValue(_)
DigitsValue(s) ==
    IF s = <<>> THEN 0
    ELSE 10 * DigitsValue(SubSeq(s, 1, Len(s) - 1)) + DigitVal(s[Len(s)])

AllDigits(s) == \A i \in 1..Len(s) : IsDigit(s[i])

\* str::parse::<isize>: an optional sign, then one digit or more
ParseIsize(s) ==
    LET signed == s # <<>> /\ s[1] \in {"+", "-"}
        body   == IF signed THEN Tail(s) ELSE s
    IN  IF body = <<>> \/ ~AllDigits(body) THEN Err("parse")
        ELSE IF signed /\ s[1] = "-" THEN Ok(0 - DigitsValue(body))
        ELSE Ok(DigitsValue(body))

\* SizeArg::to_isize; the text is never empty where from_str calls it
to_isize(s) ==
    LET chs  == s
        lastCh == chs[Len(chs)]
        init == SubSeq(chs, 1, Len(chs) - 1)
        sa == IF lastCh \in {"k", "K"} THEN <<init, 1024>>
                ELSE IF lastCh \in {"m", "M"} THEN <<init, 1024 * 1024>>
                ELSE IF lastCh \in {"g", "G"} THEN <<init, 1024 * 1024 * 1024>>
                ELSE IF lastCh \in {"t", "T"}
                     THEN <<init, 1024 * 1024 * 1024 * 1024>>
                ELSE <<chs, 1>>
        n    == ParseIsize(sa[1])
    IN  IF n.ok THEN Ok(n.val * sa[2]) ELSE Err("parse")

\* the text between the commas of s, in order
RECURSIVE Split(_, _)
Split(s, cur) ==
    IF s = <<>> THEN <<cur>>
    ELSE IF Head(s) = "," THEN <<cur>> \o Split(Tail(s), <<>>)
    ELSE Split(Tail(s), Append(cur, Head(s)))

\* <SizeArg as FromStr>::from_str
from_str(s) ==
    LET c1 == ARG_RE1(s) IN
    IF c1 # None
    THEN LET x == to_isize(c1[1].g1)
             y == IF c1[1].g2 = None THEN None
                  ELSE Some(to_isize(SubSeq(c1[1].g2[1], 3, Len(c1[1].g2[1]))))
         IN  IF ~x.ok THEN Err(x.err)
             ELSE IF y # None /\ ~y[1].ok THEN Err(y[1].err)
             ELSE Ok(SizeArgRange(Some(x.val),
                                  IF y = None THEN None ELSE Some(y[1].val)))
    ELSE LET c2 == ARG_RE2(s) IN
         IF c2 = None THEN Ok(SizeArgNone)
         ELSE LET parts == Split(c2[1], <<>>) IN
              Ok(SizeArgList([i \in 1..Len(parts) |-> to_isize(parts[i]).val]))

\* 1024^e
RECURSIVE Pow1024(_)
Pow1024(e) == IF e = 0 THEN 1 ELSE 1024 * Pow1024(e - 1)

\* a menu entry <<m, e>> stands for m * 1024^e
EntryLess(en, v) == en[1] <= (v - 1) \div Pow1024(en[2])   \* m * 1024^e <  v
EntryLeq(en, v) == en[1] <= v \div Pow1024(en[2])          \* m * 1024^e <= v
EntryValue(en) == en[1] * Pow1024(en[2])

BLOCK_SIZES ==
    << <<128, 0>>, <<256, 0>>, <<512, 0>>, <<1024, 0>>, <<10, 1>>,
       <<100, 1>>, <<1024, 1>>, <<10, 2>>, <<100, 2>> >>

DATA_SIZES ==
    << <<1, 2>>, <<10, 2>>, <<100, 2>>, <<1024, 2>>, <<10, 3>>, <<100, 3>> >>

\* iter().skip_while(|x| **x < from)
RECURSIVE SkipWhileLess(_, _)
SkipWhileLess(menu, from) ==
    IF menu # <<>> /\ EntryLess(Head(menu), from)
    THEN SkipWhileLess(Tail(menu), from)
    ELSE menu

\* take_while with the upper bound left out: |x| **x < till
RECURSIVE TakeWhileLess(_, _)
TakeWhileLess(menu, till) ==
    IF menu # <<>> /\ EntryLess(Head(menu), till)
    THEN <<EntryValue(Head(menu))>> \o TakeWhileLess(Tail(menu), till)
    ELSE <<>>

\* .take_while(|x| **x <= till).map(|x| *x).collect()
RECURSIVE TakeWhileLeq(_, _)
TakeWhileLeq(menu, till) ==
    IF menu # <<>> /\ EntryLeq(Head(menu), till)
    THEN <<EntryValue(Head(menu))>> \o TakeWhileLeq(Tail(menu), till)
    ELSE <<>>

\* the body get_blocks and get_datas share, over the menu of each
Expand(a, menu) ==
    IF a.tag = "None" THEN Ok(<<>>)
    ELSE IF a.tag = "List" THEN Ok(a.sizes)
    ELSE IF a.x = None /\ a.y = None THEN Ok(<<>>)
    ELSE IF a.x # None /\ a.y = None THEN Ok(<<a.x[1]>>)
    ELSE IF a.x = None /\ a.y # None THEN Err("unreachable")
    ELSE Ok(TakeWhileLeq(SkipWhileLess(menu, a.x[1]), a.y[1]))

get_blocks(a) == Expand(a, BLOCK_SIZES)

get_datas(a) == Expand(a, DATA_SIZES)

---------------------------------------------------------------------------
(* src/stats.rs: Stats *)

\* Stats::new at clock reading now
StatsNew(now) ==
    [tp_second |-> now, tp_current |-> 0,
     sync_latencies |-> <<>>, throughputs |-> <<>>]

\* SystemTime::elapsed of stamp `since` read at `now`, in whole seconds: an
\* error when the clock was set back behind the stamp
Elapsed(now, since) ==
    IF now >= since THEN Ok(now - since) ELSE Err("SystemTimeError")

\* Duration::as_micros of whole seconds
AsMicros(secs) == secs * 1000000

\* a click that takes the pending total as the sample, without the average
clickNoAverage(self, el_second, now, el_start, size) ==
    IF ~el_second.ok THEN [ok |-> FALSE, self |-> self]
    ELSE LET s1 == IF el_second.val = 1
                   THEN [self EXCEPT
                            !.throughputs = Append(@, self.tp_current),
                            !.tp_second = now,
                            !.tp_current = 0]
                   ELSE [self EXCEPT !.tp_current = @ + size]
         IN  IF ~el_start.ok THEN [ok |-> FALSE, self |-> s1]
             ELSE [ok |-> TRUE,
                   self |-> [s1 EXCEPT
                       !.sync_latencies = Append(@, el_start.val)]]

\* Stats::click(start, size).  el_second is what self.tp_second.elapsed()
\* returned (seconds), now what SystemTime::now() returned, el_start what
\* start.elapsed() returned (microseconds).  The result carries self as the
\* call leaves it, also when it returns an error.
click(self, el_second, now, el_start, size) ==
    IF ~el_second.ok THEN [ok |-> FALSE, self |-> self]
    ELSE LET s1 == IF el_second.val = 1
                   THEN LET n == Len(self.throughputs)
                            throughput ==
                                IF n > 0
                                THEN (self.throughputs[n] + self.tp_current) \div 2
                                ELSE self.tp_current
                        IN  [self EXCEPT
                                !.throughputs = Append(@, throughput),
                                !.tp_second = now,
                                !.tp_current = 0]
                   ELSE [self EXCEPT !.tp_current = @ + size]
         IN  IF ~el_start.ok THEN [ok |-> FALSE, self |-> s1]
             ELSE [ok |-> TRUE,
                   self |-> [s1 EXCEPT
                       !.sync_latencies = Append(@, el_start.val)]]

\* Vec::resize(new_len, value)
Resize(v, new_len, value) ==
    [i \in 1..new_len |-> IF i <= Len(v) THEN v[i] ELSE value]

Min(a, b) == IF a < b THEN a ELSE b
Max(a, b) == IF a < b THEN b ELSE a

\* a join that puts the other collector's latency samples first
joinOtherFirst(self, other) ==
    [self EXCEPT
        !.sync_latencies = other.sync_latencies \o @,
        !.throughputs = other.throughputs]

\* Stats::join(other)
join(self, other) ==
    LET resized == Resize(self.throughputs, Len(other.throughputs), 0)
        n       == Min(Len(resized), Len(other.throughputs))
    IN  [self EXCEPT
            !.sync_latencies = @ \o other.sync_latencies,
            !.throughputs =
                [i \in 1..Len(resized) |->
                    IF i <= n THEN resized[i] + other.throughputs[i]
                    ELSE resized[i]]]

---------------------------------------------------------------------------
(* src/main.rs: humanize, Context, writer_thread, main *)

\* humanize(bytes); 1024^4 is beyond TLC's integers, so the last comparison
\* and division are made on bytes / 1024
humanize(bytes) ==
    IF bytes < 1024 THEN ToString(bytes) \o "B"
    ELSE IF bytes < 1024 * 1024 THEN ToString(bytes \div 1024) \o "KB"
    ELSE IF bytes < 1024 * 1024 * 1024
         THEN ToString(bytes \div (1024 * 1024)) \o "MB"
    ELSE IF bytes \div 1024 < 1024 * 1024 * 1024
         THEN ToString(bytes \div (1024 * 1024 * 1024)) \o "GB"
    ELSE ToString((bytes \div 1024) \div (1024 * 1024 * 1024)) \o "TB"

Workers == 0..(MaxThreads - 1)

\* no thread is spawned for the index
Idle ==
    [pc |-> "idle", point |-> 0, data_size |-> 0, block |-> 0, flen |-> 0,
     stats |-> StatsNew(0), writes |-> 0, syncs |-> 0, err |-> "",
     joined |-> FALSE, fd |-> None]

\* Context::new(block_size, data_size, fd) moved into a spawned writer_thread,
\* which starts with Stats::new(); the file is new and empty
Context(point, block_size, data_size) ==
    [Idle EXCEPT !.pc = "loop", !.point = point, !.data_size = data_size,
                 !.block = block_size]

\* a writer that notes the error and goes on with its loop
FailedGoesOn(w, msg) == [w EXCEPT !.pc = "loop", !.err = msg]

\* writer_thread returns Err(DiskioError(msg)): the result carries no Stats;
\* the record keeps what the thread had collected when it returned
Failed(w, msg) == [w EXCEPT !.pc = "failed", !.err = msg]

\* the byte counts a short write may return
PartialCounts(len) == {n \in {0, len - 1} : 0 <= n /\ n < len}

RECURSIVE Flatten(_)
Flatten(ss0) == IF ss0 = <<>> THEN <<>> ELSE Head(ss0) \o Flatten(Tail(ss0))

\* a sweep list with the block sizes as the outer loop
SweepListBlockOuter(ds, bs) ==
    Flatten([j \in 1..Len(bs) |-> [i \in 1..Len(ds) |-> <<ds[i], bs[j]>>]])

\* the sweep list main builds: for each data size, every block size
SweepList(ds, bs) ==
    Flatten([i \in 1..Len(ds) |-> [j \in 1..Len(bs) |-> <<ds[i], bs[j]>>]])

MainOff ==
    /\ argv = None
    /\ opt = None
    /\ xs = <<>>
    /\ ix = 0
    /\ pcMain = "off"
    /\ spawnI = 0
    /\ joinI = 0
    /\ worker = [i \in Workers |-> Idle]
    /\ files = [i \in Workers |-> FALSE]
    /\ ss = StatsNew(0)
    /\ TOTAL = 0

---------------------------------------------------------------------------
(* SpecStats: one writer's collector, fed by click as the clock runs *)

NoCall == [op |-> "none"]

StatsOff ==
    /\ clock = 0
    /\ st = StatsNew(0)
    /\ agg = StatsNew(0)
    /\ startTime = None
    /\ last = NoCall

ArgsOff ==
    /\ argText = <<>>
    /\ parsed = None
    /\ blocks = None
    /\ datas = None
    /\ pcArgs = "off"

InitStats ==
    /\ ArgsOff
    /\ MainOff
    /\ clock = 0
    /\ st = StatsNew(0)
    /\ agg = StatsNew(0)
    /\ startTime = None
    /\ last = [op |-> "new", calls |-> 0]

\* a second passes
Tick ==
    /\ clock < MaxClock
    /\ clock' = clock + 1
    /\ UNCHANGED <<argVars, mainVars, st, agg, startTime, last>>

\* the system clock is set back by a second
SetBack ==
    /\ clock > 0
    /\ clock' = clock - 1
    /\ UNCHANGED <<argVars, mainVars, st, agg, startTime, last>>

\* writer_thread captures start_time before it writes
Begin ==
    /\ startTime = None
    /\ last.op \in {"new", "click"}
    /\ last.op = "click" => last.ok
    /\ last.calls < MaxClicks
    /\ startTime' = Some(clock)
    /\ UNCHANGED <<argVars, mainVars, clock, st, agg, last>>

\* writer_thread calls stats.click(start_time, size); on an error it returns
\* and makes no further call
Click ==
    /\ startTime # None
    /\ \E size \in 1..MaxSize :
         LET el_second == Elapsed(clock, st.tp_second)
             el_start  == Elapsed(clock, startTime[1])
             r == click(st, el_second, clock,
                        IF el_start.ok THEN Ok(AsMicros(el_start.val))
                        ELSE el_start,
                        size)
         IN  /\ st' = r.self
             /\ last' = [op |-> "click", ok |-> r.ok, pre |-> st,
                         el_second |-> el_second, size |-> size,
                         calls |-> last.calls + 1]
    /\ startTime' = None
    /\ UNCHANGED <<argVars, mainVars, clock, agg>>

NextStats == Tick \/ SetBack \/ Begin \/ Click

SpecStats == InitStats /\ [][NextStats]_vars

---------------------------------------------------------------------------
(* Properties of Stats::click, checked under SpecStats *)

\* C4: every call of click that sees one second or more since the window
\* boundary closes the window: it appends exactly one throughput sample,
\* resets the pending total to zero and moves the boundary to now.
C4_WindowCloses ==
    (/\ last.op = "click"
     /\ last.el_second.ok
     /\ last.el_second.val >= 1)
    => /\ Len(st.throughputs) = Len(last.pre.throughputs) + 1
       /\ st.tp_current = 0
       /\ st.tp_second = clock

---------------------------------------------------------------------------
(* SpecJoin: Stats::join applied to two collectors *)

\* the values of the samples SpecJoin draws
SampleValues == {1, 2}

SeqsUpTo(n) == UNION {[1..k -> SampleValues] : k \in 0..n}

\* the collectors SpecJoin draws: every latency and throughput sequence of
\* at most MaxSamples samples
StatsValues ==
    {[tp_second |-> 0, tp_current |-> 0, sync_latencies |-> l, throughputs |-> t] :
        l \in SeqsUpTo(MaxSamples), t \in SeqsUpTo(MaxSamples)}

InitJoin ==
    /\ ArgsOff
    /\ MainOff
    /\ clock = 0
    /\ startTime = None
    /\ agg \in StatsValues
    /\ st \in StatsValues
    /\ last = NoCall

\* main: ss.join(stat)
Join ==
    /\ last = NoCall
    /\ agg' = join(agg, st)
    /\ last' = [op |-> "join", pre |-> agg, other |-> st]
    /\ UNCHANGED <<argVars, mainVars, clock, st, startTime>>

NextJoin == Join

SpecJoin == InitJoin /\ [][NextJoin]_vars

---------------------------------------------------------------------------
(* Properties of Stats::join, checked under SpecJoin *)

\* C3: merging `other` into a receiver drops no throughput sample: for
\* sequences of lengths p and q the merged one has length max(p, q), its
\* first min(p, q) elements are the elementwise sums and the others are the
\* longer sequence's own, whichever of the two is the longer.
C3_ThroughputMerge ==
    last.op = "join" =>
        LET a == last.pre.throughputs
            b == last.other.throughputs
            m == agg.throughputs
        IN  /\ Len(m) = Max(Len(a), Len(b))
            /\ \A i \in 1..Len(m) :
                 m[i] = IF i <= Min(Len(a), Len(b)) THEN a[i] + b[i]
                        ELSE IF i <= Len(a) THEN a[i]
                        ELSE b[i]

---------------------------------------------------------------------------
(* SpecArgs: one argument text, parsed and expanded on both axes *)

\* the characters the argument texts are made of
Alphabet == {"1", "k", "M", "t", ".", ","}

UnitAmp(c) ==
    IF c \in {"k", "K"} THEN 1024
    ELSE IF c \in {"m", "M"} THEN 1024 * 1024
    ELSE 1024 * 1024 * 1024

\* the numeral that ends at position i
RECURSIVE RunStart(_, _)
RunStart(s, i) == IF i >= 1 /\ IsDigit(s[i]) THEN RunStart(s, i - 1) ELSE i + 1

\* every numeral of the text, multiplied by its unit, is below IntMax
Fits(s) ==
    \A i \in 2..Len(s) :
        IsUnit(s[i]) /\ IsDigit(s[i - 1]) =>
            DigitsValue(SubSeq(s, RunStart(s, i - 1), i - 1))
                <= IntMax \div UnitAmp(s[i])

InitArgs ==
    /\ \E n \in 0..MaxLen : argText \in [1..n -> Alphabet]
    /\ Fits(argText)
    /\ parsed = None
    /\ blocks = None
    /\ datas = None
    /\ pcArgs = "parse"
    /\ StatsOff
    /\ MainOff

\* structopt calls from_str on the argument text
FromStr ==
    /\ pcArgs = "parse"
    /\ parsed' = Some(from_str(argText))
    /\ pcArgs' = IF from_str(argText).ok THEN "expand" ELSE "done"
    /\ UNCHANGED <<argText, blocks, datas>>
    /\ UNCHANGED statVars
    /\ UNCHANGED mainVars

\* main() expands the parsed argument
GetSizes ==
    /\ pcArgs = "expand"
    /\ blocks' = Some(get_blocks(parsed[1].val))
    /\ datas' = Some(get_datas(parsed[1].val))
    /\ pcArgs' = "done"
    /\ UNCHANGED <<argText, parsed>>
    /\ UNCHANGED statVars
    /\ UNCHANGED mainVars

NextArgs == FromStr \/ GetSizes

SpecArgs == InitArgs /\ [][NextArgs]_vars

---------------------------------------------------------------------------
(* Properties of the size arguments, checked under SpecArgs *)

\* the values of the menu's entries that lie in from..till, in menu order
InRange(menu, from, till) ==
    LET Within(en) == ~EntryLess(en, from) /\ EntryLeq(en, till)
        kept == SelectSeq(menu, Within)
    IN  [i \in 1..Len(kept) |-> EntryValue(kept[i])]

StrictlyAscending(q) == \A i \in 1..(Len(q) - 1) : q[i] < q[i + 1]

\* the argument was accepted as a range with both of its bounds
IsFullRange ==
    /\ pcArgs = "done"
    /\ parsed[1].ok
    /\ parsed[1].val.tag = "Range"
    /\ parsed[1].val.x # None
    /\ parsed[1].val.y # None

\* the menu {1k, 2k, 4k, 8k, 16k, 32k}
ExampleMenu == << <<1, 1>>, <<2, 1>>, <<4, 1>>, <<8, 1>>, <<16, 1>>, <<32, 1>> >>

\* C8: a range A..B expands, on the block-size menu and on the data-size
\* menu, to exactly the menu's values v with A <= v <= B, in strictly
\* ascending order and without duplicates; 2k..20k on the menu
\* {1k, 2k, 4k, 8k, 16k, 32k} gives 2k, 4k, 8k, 16k.
C8_RangeExpansion ==
    /\ IsFullRange =>
         LET a == parsed[1].val.x[1]
             b == parsed[1].val.y[1]
         IN  /\ blocks[1] = Ok(InRange(BLOCK_SIZES, a, b))
             /\ datas[1] = Ok(InRange(DATA_SIZES, a, b))
             /\ StrictlyAscending(blocks[1].val)
             /\ StrictlyAscending(datas[1].val)
    /\ Expand(SizeArgRange(Some(2 * 1024), Some(20 * 1024)), ExampleMenu)
         = Ok(<<2048, 4096, 8192, 16384>>)

\* a range whose bounds are menu values, which skips the head of the block
\* menu and stops before its end: 1k..1M gives 1k, 10k, 100k, 1M
C8_Witness ==
    /\ IsFullRange
    /\ parsed[1].val.x[1] <= parsed[1].val.y[1]
    /\ blocks[1] = Ok(<<1024, 10 * 1024, 100 * 1024, 1024 * 1024>>)
    /\ datas[1] = Ok(<<1024 * 1024>>)

\* the text is a range with an upper bound and no lower bound: ..<size>
IsUpperOnlyRange(s) ==
    /\ Len(s) >= 3
    /\ s[1] = "."
    /\ s[2] = "."
    /\ MatchSize(s, 3) = Len(s) + 1

\* C9: a size argument with an upper bound and no lower bound (..1k) is
\* rejected with an error when it is parsed; it is never accepted and turned
\* into an empty size list.
C9_UpperOnlyRejected ==
    (pcArgs # "parse" /\ IsUpperOnlyRange(argText)) => ~parsed[1].ok

---------------------------------------------------------------------------
(* Spec: main() and its writer threads *)

\* the --block-size texts: "", "1024", "2048", "1k,2k", "..1k"
BlockTexts ==
    { <<>>,
      <<"1", "0", "2", "4">>,
      <<"2", "0", "4", "8">>,
      <<"1", "k", ",", "2", "k">>,
      <<".", ".", "1", "k">> }

\* the --data-size texts: "", "1", "4096", "1000", "1000,4096"
DataTexts ==
    { <<>>,
      <<"1">>,
      <<"4", "0", "9", "6">>,
      <<"1", "0", "0", "0">>,
      <<"1", "0", "0", "0", ",", "4", "0", "9", "6">> }

CeilDiv(a, b) == (a + b - 1) \div b

\* the write operations the workers of sweep point <<d, b>> need together
PointOps(n, d, b) == n * CeilDiv(d \div n, b)

ArgvFits(a) ==
    LET ds == get_datas(from_str(a.data_size).val).val
        bs == get_blocks(from_str(a.block_size).val).val
    IN  \A i \in 1..Len(ds) : \A j \in 1..Len(bs) :
            bs[j] >= 1 /\ PointOps(a.nthreads, ds[i], bs[j]) <= MaxTotalOps

Init ==
    /\ ArgsOff
    /\ StatsOff
    /\ \E b \in BlockTexts, d \in DataTexts, n \in 1..MaxThreads :
         argv = [block_size |-> b, data_size |-> d, nthreads |-> n]
    /\ ArgvFits(argv)
    /\ opt = None
    /\ xs = <<>>
    /\ ix = 0
    /\ pcMain = "args"
    /\ spawnI = 0
    /\ joinI = 0
    /\ worker = [i \in Workers |-> Idle]
    /\ files = [i \in Workers |-> FALSE]
    /\ ss = StatsNew(0)
    /\ TOTAL = 0

\* Opt::from_args(): structopt parses each size text with from_str and exits
\* on an error
ParseArgs ==
    /\ pcMain = "args"
    /\ LET b == from_str(argv.block_size)
           d == from_str(argv.data_size)
       IN  IF b.ok /\ d.ok
           THEN /\ opt' = Some([block_size |-> b.val, data_size |-> d.val,
                                nthreads |-> argv.nthreads])
                /\ pcMain' = "build"
           ELSE /\ opt' = None
                /\ pcMain' = "exit"
    /\ UNCHANGED <<argVars, statVars, argv, xs, ix, spawnI, joinI, worker, files, ss, TOTAL>>

\* where the for loop over xs goes from position i
LoopAt(list, i) == IF i <= Len(list) THEN "spawn" ELSE "done"

\* main: let xs = ...; an unreachable!() in get_datas or get_blocks panics
BuildSweep ==
    /\ pcMain = "build"
    /\ LET ds == get_datas(opt[1].data_size)
           bs == get_blocks(opt[1].block_size)
       IN  IF ds.ok /\ bs.ok
           THEN /\ xs' = SweepList(ds.val, bs.val)
                /\ ix' = 1
                /\ pcMain' = LoopAt(SweepList(ds.val, bs.val), 1)
           ELSE /\ pcMain' = "aborted"
                /\ UNCHANGED <<xs, ix>>
    /\ spawnI' = 0
    /\ UNCHANGED <<argVars, statVars, argv, opt, joinI, worker, files, ss, TOTAL>>

\* the data size divided with the remainder rounded up
QuotaCeil(dsize, nthreads) == (dsize + nthreads - 1) \div nthreads

\* every Context gets the whole data size
QuotaWhole(dsize, nthreads) == dsize

\* the data size each Context gets: dsize / opt.nthreads
Quota(dsize, nthreads) == dsize \div nthreads

\* one file for every thread
make_data_file_shared(id) == 0

\* Context::make_data_file(id, opt): the file diskio-<id>.data, removed and
\* created anew, open for appending
make_data_file(id) == id

\* the spawn loop is over once i reaches opt.nthreads; ss = Stats::new()
SpawnNext(i) ==
    IF i < opt[1].nthreads THEN <<"spawn", i>> ELSE <<"join", 0>>

\* main, the spawn loop: make_data_file(i) removes and creates the file,
\* Context::new, thread::spawn
Spawn ==
    /\ pcMain = "spawn"
    /\ spawnI < opt[1].nthreads
    /\ files' = [files EXCEPT ![spawnI] = TRUE]
    /\ worker' = [worker EXCEPT ![spawnI] =
                    [Context(ix, xs[ix][2], Quota(xs[ix][1], opt[1].nthreads))
                        EXCEPT !.fd = Some(make_data_file(spawnI))]]
    /\ spawnI' = spawnI + 1
    /\ pcMain' = SpawnNext(spawnI + 1)[1]
    /\ joinI' = 0
    /\ ss' = StatsNew(0)
    /\ UNCHANGED <<argVars, statVars, argv, opt, xs, ix, TOTAL>>

\* main, the spawn loop: make_data_file(i).unwrap() panics
SpawnFails ==
    /\ pcMain = "spawn"
    /\ spawnI < opt[1].nthreads
    /\ pcMain' = "aborted"
    /\ UNCHANGED <<argVars, statVars, argv, opt, xs, ix, spawnI, joinI, worker, files, ss, TOTAL>>

\* a loop that goes on while ctxt.data_size >= 0
QuotaLeftOrZero(w) == w.data_size >= 0

\* while ctxt.data_size > 0
QuotaLeft(w) == w.data_size > 0

\* writer_thread: ctxt.fd.write(block) returns Ok(block.len())
WriteOk(i) ==
    /\ worker[i].pc = "loop"
    /\ QuotaLeft(worker[i])
    /\ worker' = [worker EXCEPT ![i] =
                    [@ EXCEPT !.pc = "wrote", !.flen = @ + worker[i].block,
                              !.writes = @ + 1]]
    /\ UNCHANGED <<argVars, statVars, argv, opt, xs, ix, pcMain, spawnI, joinI, files, ss, TOTAL>>

\* writer_thread: ctxt.fd.write(block) returns Ok(n), n != block.len()
WritePartial(i) ==
    /\ worker[i].pc = "loop"
    /\ QuotaLeft(worker[i])
    /\ \E n \in PartialCounts(worker[i].block) :
         worker' = [worker EXCEPT ![i] =
                      Failed([@ EXCEPT !.flen = @ + n], "partial write")]
    /\ UNCHANGED <<argVars, statVars, argv, opt, xs, ix, pcMain, spawnI, joinI, files, ss, TOTAL>>

\* writer_thread: ctxt.fd.write(block) returns Err
WriteErr(i) ==
    /\ worker[i].pc = "loop"
    /\ QuotaLeft(worker[i])
    /\ worker' = [worker EXCEPT ![i] = Failed(@, "invalid write")]
    /\ UNCHANGED <<argVars, statVars, argv, opt, xs, ix, pcMain, spawnI, joinI, files, ss, TOTAL>>

\* a writer that goes on from its write without the sync
SyncSkipped(i) ==
    /\ worker[i].pc = "wrote"
    /\ worker' = [worker EXCEPT ![i] = [@ EXCEPT !.pc = "synced"]]
    /\ UNCHANGED <<argVars, statVars, argv, opt, xs, ix, pcMain, spawnI, joinI, files, ss, TOTAL>>

\* writer_thread: ctxt.fd.sync_all() returns Ok
SyncOk(i) ==
    /\ worker[i].pc = "wrote"
    /\ worker' = [worker EXCEPT ![i] =
                    [@ EXCEPT !.pc = "synced", !.syncs = @ + 1]]
    /\ UNCHANGED <<argVars, statVars, argv, opt, xs, ix, pcMain, spawnI, joinI, files, ss, TOTAL>>

\* writer_thread: ctxt.fd.sync_all()? returns the error
SyncErr(i) ==
    /\ worker[i].pc = "wrote"
    /\ worker' = [worker EXCEPT ![i] = Failed(@, "sync")]
    /\ UNCHANGED <<argVars, statVars, argv, opt, xs, ix, pcMain, spawnI, joinI, files, ss, TOTAL>>

\* what elapsed() may return to click: an error, or a duration
SecondsSeen == {Err("SystemTimeError")} \cup {Ok(e) : e \in 0..MaxElapsed}
MicrosSeen == {Err("SystemTimeError")} \cup {Ok(l) : l \in 1..MaxLatency}

\* writer_thread: ctxt.data_size -= block.len(); stats.click(start_time, len)?
Record(i) ==
    /\ worker[i].pc = "synced"
    /\ \E el_second \in SecondsSeen, el_start \in MicrosSeen :
         LET w == [worker[i] EXCEPT !.data_size = @ - worker[i].block]
             r == click(w.stats, el_second, 0, el_start, w.block)
         IN  worker' = [worker EXCEPT ![i] =
                 IF r.ok THEN [w EXCEPT !.pc = "loop", !.stats = r.self]
                 ELSE Failed(w, "time")]
    /\ UNCHANGED <<argVars, statVars, argv, opt, xs, ix, pcMain, spawnI, joinI, files, ss, TOTAL>>

\* a store in place of the add
FetchStore(total, n) == n

\* TOTAL.fetch_add(n, Ordering::Relaxed)
FetchAdd(total, n) == total + n

\* writer_thread, after the loop: the file's length is added to TOTAL and the
\* collector returned
Finish(i) ==
    /\ worker[i].pc = "loop"
    /\ ~QuotaLeft(worker[i])
    /\ TOTAL' = FetchAdd(TOTAL, worker[i].flen)
    /\ worker' = [worker EXCEPT ![i] = [@ EXCEPT !.pc = "done"]]
    /\ UNCHANGED <<argVars, statVars, argv, opt, xs, ix, pcMain, spawnI, joinI, files, ss>>

\* writer_thread, after the loop: ctxt.fd.metadata().unwrap() panics
FinishPanics(i) ==
    /\ worker[i].pc = "loop"
    /\ ~QuotaLeft(worker[i])
    /\ worker' = [worker EXCEPT ![i] =
                    [@ EXCEPT !.pc = "panicked"]]
    /\ UNCHANGED <<argVars, statVars, argv, opt, xs, ix, pcMain, spawnI, joinI, files, ss, TOTAL>>

Terminated(w) == w.pc \in {"done", "failed", "panicked"}

\* a merge of every writer's samples, whatever its result
MergeAll(a, w) == join(a, w.stats)

\* the match on w.join(): Ok(Ok(stat)) => ss.join(stat); the other arms print
Merge(a, w) == IF w.pc = "done" THEN join(a, w.stats) ELSE a

\* a join loop that leaves the last handle unjoined
JoinNextButLast(i) == IF i < opt[1].nthreads - 1 THEN "join" ELSE "plot"

\* the join loop is over once every handle of writers is consumed
JoinNext(i) == IF i < opt[1].nthreads THEN "join" ELSE "plot"

\* main, the join loop: w.join() returns once writer i has ended
JoinWorker ==
    /\ pcMain = "join"
    /\ joinI < opt[1].nthreads
    /\ Terminated(worker[joinI])
    /\ ss' = Merge(ss, worker[joinI])
    /\ worker' = [worker EXCEPT ![joinI] = [@ EXCEPT !.joined = TRUE]]
    /\ joinI' = joinI + 1
    /\ pcMain' = JoinNext(joinI + 1)
    /\ UNCHANGED <<argVars, statVars, argv, opt, xs, ix, spawnI, files, TOTAL>>

\* main: plot::latency and plot::throughput take ss's sequences and return Ok
Plot ==
    /\ pcMain = "plot"
    /\ pcMain' = "summary"
    /\ ss' = StatsNew(0)
    /\ UNCHANGED <<argVars, statVars, argv, opt, xs, ix, spawnI, joinI, worker, files, TOTAL>>

\* main: a plot returns an error and expect() panics
PlotFails ==
    /\ pcMain = "plot"
    /\ pcMain' = "aborted"
    /\ UNCHANGED <<argVars, statVars, argv, opt, xs, ix, spawnI, joinI, worker, files, ss, TOTAL>>

\* a summary that leaves the counter as it is
SummaryNoReset ==
    /\ pcMain = "summary"
    /\ worker' = [i \in Workers |-> IF worker[i].joined THEN Idle ELSE worker[i]]
    /\ ix' = ix + 1
    /\ pcMain' = LoopAt(xs, ix + 1)
    /\ spawnI' = 0
    /\ UNCHANGED <<argVars, statVars, argv, opt, xs, joinI, files, ss, TOTAL>>

\* main: TOTAL.load(), println!("wrote {} ..."), TOTAL.store(0); the loop
\* body ends, its joined handles are gone, and the for loop moves on
Summary ==
    /\ pcMain = "summary"
    /\ TOTAL' = 0
    /\ worker' = [i \in Workers |-> IF worker[i].joined THEN Idle ELSE worker[i]]
    /\ ix' = ix + 1
    /\ pcMain' = LoopAt(xs, ix + 1)
    /\ spawnI' = 0
    /\ UNCHANGED <<argVars, statVars, argv, opt, xs, joinI, files, ss>>

\* main: start_time.elapsed() returns an error and expect() panics
SummaryFails ==
    /\ pcMain = "summary"
    /\ pcMain' = "aborted"
    /\ UNCHANGED <<argVars, statVars, argv, opt, xs, ix, spawnI, joinI, worker, files, ss, TOTAL>>

WorkerStep(i) ==
    \/ WriteOk(i)
    \/ WritePartial(i)
    \/ WriteErr(i)
    \/ SyncOk(i)
    \/ SyncErr(i)
    \/ Record(i)
    \/ Finish(i)
    \/ FinishPanics(i)

MainStep ==
    \/ ParseArgs
    \/ BuildSweep
    \/ Spawn
    \/ SpawnFails
    \/ JoinWorker
    \/ Plot
    \/ PlotFails
    \/ Summary
    \/ SummaryFails

Next == MainStep \/ \E i \in Workers : WorkerStep(i)

Spec == Init /\ [][Next]_vars

---------------------------------------------------------------------------
(* Properties of main and its writer threads, checked under Spec *)

\* the threads main spawns for a sweep point
Spawned == 0..(opt[1].nthreads - 1)

\* the quota and the block size of the sweep point a writer belongs to
QuotaOf(w) == xs[w.point][1] \div opt[1].nthreads
BlockOf(w) == xs[w.point][2]

\* the writer performed exactly n write+sync operations and holds n latency
\* samples
Performed(w, n) ==
    /\ w.writes = n
    /\ w.syncs = n
    /\ Len(w.stats.sync_latencies) = n

\* the sweep point block size 1024, data size 4096, run by 1 thread
IsScenario4K ==
    /\ pcMain = "summary"
    /\ opt[1].nthreads = 1
    /\ xs[ix] = <<4096, 1024>>
    /\ worker[0].pc = "done"

\* C1 as stated: a writer whose writes and syncs all succeed performs exactly
\* ceil(Q/B) write+sync operations and returns that many latency samples.
C1_Original ==
    \A i \in Workers :
        (/\ Terminated(worker[i])
         /\ worker[i].err \notin {"partial write", "invalid write", "sync"})
        => Performed(worker[i], CeilDiv(QuotaOf(worker[i]), BlockOf(worker[i])))

\* C1: a writer that returns its Stats (its writes, its syncs, the clock
\* reads of click and the final metadata query all succeed) has performed
\* exactly ceil(Q/B) write+sync operations, none when Q = 0, and returns
\* exactly that many latency samples; block size 1024, data size 4096 and
\* 1 thread give 4 operations, 4 samples and a reported total of "4KB".
C1_OpsOfCompletedWriter ==
    /\ \A i \in Workers :
         worker[i].pc = "done"
         => /\ BlockOf(worker[i]) >= 1
            /\ QuotaOf(worker[i]) >= 0
            /\ Performed(worker[i],
                         CeilDiv(QuotaOf(worker[i]), BlockOf(worker[i])))
            /\ QuotaOf(worker[i]) = 0 => Performed(worker[i], 0)
    /\ IsScenario4K => /\ Performed(worker[0], 4)
                       /\ humanize(TOTAL) = "4KB"

\* the 4096/1024/1 sweep point at its summary, four operations made
C1_Witness ==
    /\ IsScenario4K
    /\ worker[0].writes = 4
    /\ TOTAL = 4096

\* the point's workers have all been joined
AfterJoin == pcMain \in {"plot", "summary"}

\* C2 as stated: once the workers of a sweep point have joined, the counter
\* is at most N * floor(D/N), hence at most D, whatever the block size.
C2_Original ==
    AfterJoin =>
        /\ TOTAL <= opt[1].nthreads * (xs[ix][1] \div opt[1].nthreads)
        /\ TOTAL <= xs[ix][1]

\* C2: once the workers of a sweep point have joined, the counter is at most
\* N * B * ceil(floor(D/N) / B), with equality when every worker completed;
\* it is at most N * floor(D/N), and so at most D, when the block size
\* divides the quota floor(D/N).
C2_CounterBound ==
    AfterJoin =>
        LET n == opt[1].nthreads
            d == xs[ix][1]
            b == xs[ix][2]
            q == d \div n
        IN  /\ TOTAL <= n * b * CeilDiv(q, b)
            /\ (\A i \in Spawned : worker[i].pc = "done")
                 => TOTAL = n * b * CeilDiv(q, b)
            /\ q % b = 0 => (TOTAL <= n * q /\ TOTAL <= d)

\* data size 1000 written in blocks of 1024: the counter exceeds the data size
C2_Witness ==
    /\ pcMain = "summary"
    /\ xs[ix] = <<1000, 1024>>
    /\ TOTAL > xs[ix][1]

\* the latency samples of the writers 0..k that returned their Stats, in
\* thread order
RECURSIVE LatenciesOfDone(_)
LatenciesOfDone(k) ==
    IF k < 0 THEN <<>>
    ELSE LatenciesOfDone(k - 1)
         \o (IF worker[k].pc = "done" THEN worker[k].stats.sync_latencies
             ELSE <<>>)

\* C5: when some of a sweep point's writers return an error or panic, main
\* still joins every writer, the aggregate holds the samples of exactly the
\* writers that returned their Stats, and main goes from the join loop to the
\* point's output: a writer's failure or panic never aborts main.
C5_FailuresTolerated ==
    /\ [](pcMain \in {"join", "plot"}
            => ss.sync_latencies = LatenciesOfDone(joinI - 1))
    /\ [](pcMain = "plot"
            => \A i \in Spawned : Terminated(worker[i]) /\ worker[i].joined)
    /\ [][pcMain = "join" => pcMain' \in {"join", "plot"}]_vars
    /\ [][(pcMain = "summary" /\ pcMain' # "aborted")
            => (ix' = ix + 1 /\ pcMain' \in {"spawn", "done"})]_vars

\* main is about to plot a point of which one writer failed at its sync with
\* samples collected and the other returned its Stats
C5_Witness ==
    /\ pcMain = "plot"
    /\ opt[1].nthreads = 2
    /\ worker[0].pc = "failed"
    /\ worker[0].err = "sync"
    /\ worker[0].stats.sync_latencies # <<>>
    /\ worker[1].pc = "done"
    /\ ss.sync_latencies = worker[1].stats.sync_latencies
    /\ ss.sync_latencies # <<>>

\* C6: sweep points are strictly sequential: every thread that exists belongs
\* to the current point, a point starts to spawn with no thread of an earlier
\* point left, and a point is left only when each of its writers has
\* terminated and been joined.
C6_PointsSequential ==
    /\ \A i \in Workers : worker[i].pc # "idle" => worker[i].point = ix
    /\ (pcMain = "spawn" /\ spawnI = 0) => \A i \in Workers : worker[i] = Idle
    /\ pcMain = "summary"
         => \A i \in Spawned : Terminated(worker[i]) /\ worker[i].joined

\* the second sweep point has a running writer
C6_Witness ==
    /\ ix = 2
    /\ \E i \in Workers : worker[i].pc = "wrote" /\ worker[i].point = 2

\* the file sizes of the writers 0..k that completed normally, summed
RECURSIVE DoneBytes(_)
DoneBytes(k) ==
    IF k < 0 THEN 0
    ELSE DoneBytes(k - 1) + (IF worker[k].pc = "done" THEN worker[k].flen ELSE 0)

\* C7: under every interleaving the counter holds the sum of the file sizes
\* of exactly the writers that completed normally in the sweep point, so that
\* is what main reads for the summary; when main reads it every writer has
\* terminated and been joined, so no add follows the read.
C7_TotalIsSumOfDone ==
    /\ TOTAL = DoneBytes(MaxThreads - 1)
    /\ pcMain = "summary"
         => \A i \in Spawned : Terminated(worker[i]) /\ worker[i].joined

\* main reads the counter after two writers added their file sizes
C7_Witness ==
    /\ pcMain = "summary"
    /\ worker[0].pc = "done"
    /\ worker[1].pc = "done"
    /\ worker[0].flen > 0
    /\ TOTAL = worker[0].flen + worker[1].flen

\* the sweep list has been built
SweepBuilt == ix >= 1

\* C10: the sweep list is the cross product of the expanded data sizes and
\* the expanded block sizes, data sizes outer and block sizes inner, so it
\* has |data sizes| * |block sizes| points; main runs them in that order, and
\* with an empty axis it runs no point: no thread is spawned, no file made.
C10_CrossProduct ==
    SweepBuilt =>
        LET ds == get_datas(opt[1].data_size).val
            bs == get_blocks(opt[1].block_size).val
        IN  /\ Len(xs) = Len(ds) * Len(bs)
            /\ \A i \in 1..Len(ds) : \A j \in 1..Len(bs) :
                 xs[(i - 1) * Len(bs) + j] = <<ds[i], bs[j]>>
            /\ \A i \in Workers :
                 worker[i].pc # "idle" => worker[i].block = xs[ix][2]
            /\ pcMain = "done" => ix = Len(xs) + 1
            /\ (Len(ds) = 0 \/ Len(bs) = 0)
                 => /\ pcMain = "done"
                    /\ \A i \in Workers : worker[i] = Idle /\ ~files[i]

\* two data sizes and two block sizes: four points, all run, the second one
\* being the first data size with the second block size
C10_Witness ==
    /\ pcMain = "done"
    /\ Len(xs) = 4
    /\ ix = 5
    /\ xs[2] = <<1000, 2048>>
    /\ xs[3] = <<4096, 1024>>

\* the latency samples held by the writers 0..k that returned their Stats
RECURSIVE SamplesOfDone(_)
SamplesOfDone(k) ==
    IF k < 0 THEN 0
    ELSE SamplesOfDone(k - 1)
         + (IF worker[k].pc = "done" THEN Len(worker[k].stats.sync_latencies)
            ELSE 0)

\* C11: joining a collector with n latency samples into a receiver with m
\* gives m + n samples, the receiver's in their order followed by the
\* other's in their order; with every writer of a sweep point joined, the
\* aggregate holds as many latency samples as the writers that returned their
\* Stats hold together.
C11_LatenciesConcatenated ==
    /\ [][(pcMain = "join" /\ joinI' = joinI + 1
           /\ worker[joinI].pc = "done")
          => LET m == Len(ss.sync_latencies)
                 n == Len(worker[joinI].stats.sync_latencies)
             IN  /\ Len(ss'.sync_latencies) = m + n
                 /\ \A k \in 1..m :
                      ss'.sync_latencies[k] = ss.sync_latencies[k]
                 /\ \A k \in 1..n :
                      ss'.sync_latencies[m + k]
                        = worker[joinI].stats.sync_latencies[k]]_vars
    /\ [](pcMain = "plot"
            => Len(ss.sync_latencies) = SamplesOfDone(opt[1].nthreads - 1))

\* two writers returned two samples each, in different orders, and main holds
\* the four of them
C11_Witness ==
    /\ pcMain = "plot"
    /\ worker[0].pc = "done"
    /\ worker[1].pc = "done"
    /\ worker[0].stats.sync_latencies = <<1, 2>>
    /\ worker[1].stats.sync_latencies = <<2, 1>>
    /\ ss.sync_latencies = <<1, 2, 2, 1>>

\* the quota decrements a writer has made: one per synced write, the one of
\* the operation in flight still to come
Decrements(w) == IF w.pc = "synced" THEN w.syncs - 1 ELSE w.syncs

\* the quota the writer's Context was created with
InitialQuota(w) == w.data_size + Decrements(w) * w.block

RECURSIVE TotalQuota(_)
TotalQuota(k) == IF k < 0 THEN 0 ELSE TotalQuota(k - 1) + InitialQuota(worker[k])

\* C12: each of the N writers of a sweep point of data size D is created
\* with quota floor(D/N), the remainder being dropped; the quota assigned in
\* total is N * floor(D/N), at most D, and is D when N divides D.
C12_QuotaPerWorker ==
    /\ \A i \in Workers :
         worker[i].pc # "idle"
         => InitialQuota(worker[i]) = xs[ix][1] \div opt[1].nthreads
    /\ pcMain = "join"
         => LET n == opt[1].nthreads
                d == xs[ix][1]
                total == TotalQuota(n - 1)
            IN  /\ d >= 0 /\ n >= 1
                /\ total = n * (d \div n)
                /\ total <= d
                /\ d % n = 0 => total = d
                /\ d % n # 0 => total = d - (d % n)

\* data size 1 on 2 threads: both writers exist with quota 0, the remainder
\* is dropped
C12_Witness ==
    /\ pcMain = "join"
    /\ opt[1].nthreads = 2
    /\ xs[ix][1] = 1
    /\ worker[0].pc # "idle" /\ InitialQuota(worker[0]) = 0
    /\ worker[1].pc # "idle" /\ InitialQuota(worker[1]) = 0

---------------------------------------------------------------------------
(* Further properties of the size arguments, checked under SpecArgs *)

\* the unit suffixes a size may carry
UnitSuffixes == {"k", "K", "m", "M", "g", "G", "t", "T"}

\* the text is one numeral with an optional unit suffix
IsSingleValue(s) ==
    LET j == DigitsEnd(s, 1) IN
    /\ j > 1
    /\ \/ j = Len(s) + 1
       \/ j = Len(s) /\ s[j] \in UnitSuffixes

\* the numeral of a single-value text
NumeralOf(s) == DigitsValue(SubSeq(s, 1, DigitsEnd(s, 1) - 1))

\* the power of 1024 the suffix of a single-value text stands for
UnitExpOf(s) ==
    LET c == s[Len(s)] IN
    IF c \in {"k", "K"} THEN 1
    ELSE IF c \in {"m", "M"} THEN 2
    ELSE IF c \in {"g", "G"} THEN 3
    ELSE IF c \in {"t", "T"} THEN 4
    ELSE 0

\* v = n * 1024^e, with 1024^4 kept out of the arithmetic
IsScaled(v, n, e) ==
    IF e <= 3 THEN v = n * Pow1024(e)
    ELSE v % 1024 = 0 /\ v \div 1024 = n * Pow1024(e - 1)

\* the expansion is the one-element sequence [n * 1024^e]
IsTheOneValue(r, n, e) ==
    /\ r # None
    /\ r[1].ok
    /\ Len(r[1].val) = 1
    /\ IsScaled(r[1].val[1], n, e)

\* C13: a single-value size argument, a numeral n with an optional suffix
\* among k, K, m, M, g, G, t, T, is accepted for every suffix and expands, on
\* both menus, to the one-element sequence [n * multiplier], the multiplier
\* being 1, 1024, 1024^2, 1024^3, 1024^4.
C13_SingleValueExpansion ==
    (pcArgs = "done" /\ IsSingleValue(argText))
    => /\ parsed[1].ok
       /\ IsTheOneValue(blocks, NumeralOf(argText), UnitExpOf(argText))
       /\ IsTheOneValue(datas, NumeralOf(argText), UnitExpOf(argText))

---------------------------------------------------------------------------
(* Further properties of main and its writer threads, checked under Spec *)

\* the latency samples a writer holds
Samples(w) == Len(w.stats.sync_latencies)

\* the quota a writer has left after d decrements
QuotaAfter(w, d) == QuotaOf(w) - d * w.block

\* C14 as stated: the number of latency samples of a writer equals the number
\* of its completed syncs, at every moment but the one between a sync and
\* its record.
C14_Original ==
    \A i \in Workers :
        worker[i].pc \notin {"idle", "synced"}
        => Samples(worker[i]) = worker[i].syncs

\* C14: within a writer every operation goes write, sync, quota decrement by
\* the block size, record: a write starts only with every earlier write
\* synced and recorded, a latency sample exists only for a synced write, and
\* the latency samples are as many as the completed syncs whenever the writer
\* is between operations or has returned; a writer whose record call fails
\* on a clock read ends with one sample less than its syncs.
C14_OperationOrder ==
    \A i \in Workers :
        LET w == worker[i] IN
        /\ w.pc # "idle"
             => /\ Samples(w) <= w.syncs
                /\ w.syncs <= w.writes
                /\ w.writes <= Samples(w) + 1
        /\ w.pc \in {"loop", "done", "panicked"}
             => /\ w.writes = w.syncs
                /\ Samples(w) = w.syncs
                /\ w.data_size = QuotaAfter(w, w.syncs)
        /\ w.pc = "wrote"
             => /\ w.writes = w.syncs + 1
                /\ Samples(w) = w.syncs
                /\ w.data_size = QuotaAfter(w, w.syncs)
        /\ w.pc = "synced"
             => /\ w.writes = w.syncs
                /\ Samples(w) = w.syncs - 1
                /\ w.data_size = QuotaAfter(w, w.syncs - 1)
        /\ (w.pc = "failed" /\ w.err = "time")
             => /\ w.writes = w.syncs
                /\ Samples(w) = w.syncs - 1
                /\ w.data_size = QuotaAfter(w, w.syncs)
        /\ (w.pc = "failed" /\ w.err = "sync")
             => /\ w.writes = w.syncs + 1
                /\ Samples(w) = w.syncs
        /\ (w.pc = "failed" /\ w.err \in {"partial write", "invalid write"})
             => /\ w.writes = w.syncs
                /\ Samples(w) = w.syncs

\* one writer has returned after two operations with two samples, the other
\* has synced its second write and failed in the record call
C14_Witness ==
    /\ worker[0].pc = "done"
    /\ worker[0].syncs = 2
    /\ Samples(worker[0]) = 2
    /\ worker[1].pc = "failed"
    /\ worker[1].err = "time"
    /\ worker[1].syncs = 2
    /\ Samples(worker[1]) = 1

\* the writer met a failing write or sync
HasFailedOp(w) == w.err \in {"partial write", "invalid write", "sync"}

\* what main alone does to the record of a writer that has ended: it joins
\* it, and drops it when the sweep point is over
AfterEnd(w) == {w, [w EXCEPT !.joined = TRUE], Idle}

\* C15: after its first failing operation (a write error, a write of a byte
\* count other than the block size, a sync error) a writer is Failed and does
\* nothing further: no more writes or syncs, no latency or throughput
\* contribution of the failing operation, nothing added to the byte counter.
C15_FailureEndsWriter ==
    /\ [](\A i \in Workers :
            HasFailedOp(worker[i])
            => /\ worker[i].pc = "failed"
               /\ Samples(worker[i]) = worker[i].syncs)
    /\ [][\A i \in Workers :
            (~HasFailedOp(worker[i]) /\ HasFailedOp(worker'[i]))
            => /\ worker'[i].stats = worker[i].stats
               /\ worker'[i].writes = worker[i].writes
               /\ worker'[i].syncs = worker[i].syncs
               /\ worker'[i].data_size = worker[i].data_size
               /\ TOTAL' = TOTAL]_vars
    /\ [][\A i \in Workers :
            HasFailedOp(worker[i])
            => /\ worker'[i] \in AfterEnd(worker[i])
               /\ TOTAL' # TOTAL
                    => \/ pcMain = "summary"
                       \/ \E j \in Workers \ {i} :
                            /\ worker[j].pc = "loop"
                            /\ worker'[j].pc = "done"
                            /\ TOTAL' = TOTAL + worker[j].flen]_vars

\* main plots a point of which one writer failed at the sync of its second
\* write, its file holding two blocks, while the counter holds the other
\* writer's file alone
C15_Witness ==
    /\ pcMain = "plot"
    /\ worker[0].pc = "failed"
    /\ worker[0].err = "sync"
    /\ worker[0].writes = 2
    /\ worker[0].syncs = 1
    /\ Samples(worker[0]) = 1
    /\ worker[0].flen = 2 * worker[0].block
    /\ worker[1].pc = "done"
    /\ TOTAL = worker[1].flen
    /\ TOTAL > 0

---------------------------------------------------------------------------
(* Further properties of Stats::click, checked under SpecStats *)

\* the last call of click closed a window: it appended a throughput sample
ClosedWindow ==
    /\ last.op = "click"
    /\ Len(st.throughputs) = Len(last.pre.throughputs) + 1

\* the sample a closure makes of the collector as the call found it
SampleOf(pre) ==
    IF pre.throughputs = <<>> THEN pre.tp_current
    ELSE (pre.throughputs[Len(pre.throughputs)] + pre.tp_current) \div 2

\* the sample of a closed window is the pending total, averaged with the
\* sample before it when there is one; the earlier samples stay
SampleIsAverage ==
    ClosedWindow
    => /\ st.throughputs[Len(st.throughputs)] = SampleOf(last.pre)
       /\ SubSeq(st.throughputs, 1, Len(last.pre.throughputs))
            = last.pre.throughputs

\* C16 as stated: a closed window's sample is the pending total, or its
\* floor average with the previous sample, and every call of click, closing
\* or not, appends exactly one latency sample.
C16_Original ==
    /\ SampleIsAverage
    /\ last.op = "click"
         => Len(st.sync_latencies) = Len(last.pre.sync_latencies) + 1

\* C16: a closed window's sample is the pending total when the collector has
\* no throughput sample yet, and otherwise floor((previous sample + pending
\* total) / 2); every call of click that returns Ok, closing or not, appends
\* exactly one latency sample, and a call that returns an error appends none.
C16_SampleAndLatency ==
    /\ SampleIsAverage
    /\ last.op = "click"
         => /\ last.ok
                 => /\ Len(st.sync_latencies)
                         = Len(last.pre.sync_latencies) + 1
                    /\ SubSeq(st.sync_latencies, 1,
                              Len(last.pre.sync_latencies))
                         = last.pre.sync_latencies
            /\ ~last.ok => st.sync_latencies = last.pre.sync_latencies

\* the fourth call closes a second window: pending total 2, previous sample
\* 1, new sample floor(3 / 2) = 1
C16_Witness ==
    /\ ClosedWindow
    /\ last.ok
    /\ last.pre.throughputs = <<1>>
    /\ last.pre.tp_current = 2
    /\ st.throughputs = <<1, 1>>
    /\ Len(st.sync_latencies) = 4

---------------------------------------------------------------------------
(* Further properties of main, checked under Spec *)

\* main is about to spawn the first writer of a sweep point
PointStarts == pcMain = "spawn" /\ spawnI = 0

\* the file sizes of the writers 0..k of the current sweep point that
\* completed normally, summed
RECURSIVE PointBytes(_)
PointBytes(k) ==
    IF k < 0 THEN 0
    ELSE PointBytes(k - 1)
         + (IF worker[k].pc = "done" /\ worker[k].point = ix
            THEN worker[k].flen ELSE 0)

\* C17: whenever the first writer of a sweep point is spawned the byte
\* counter is 0, so the total of a sweep point's summary holds only bytes
\* counted in that point, for any number of points and any mix of writers
\* that succeed and fail.
C17_CounterStartsAtZero ==
    /\ PointStarts => TOTAL = 0
    /\ pcMain = "summary" => TOTAL = PointBytes(opt[1].nthreads - 1)

\* the second sweep point is about to spawn its first writer, the file of
\* the first point still there
C17_Witness ==
    /\ PointStarts
    /\ ix = 2
    /\ files[0]
    /\ TOTAL = 0

\* the thread runs: it holds its Context, and with it the open file
Live(w) == w.pc \in {"loop", "wrote", "synced"}

\* C18: at every moment a data file is open for writing by at most one live
\* writer: the writers of a sweep point hold distinct files, one per thread
\* index, and a file is removed and created anew for the next sweep point
\* only when no live writer holds it.
C18_OneWriterPerFile ==
    /\ [](\A i \in Workers :
            Live(worker[i])
            => /\ worker[i].fd = Some(i)
               /\ files[i]
               /\ \A j \in Workers \ {i} :
                    Live(worker[j]) => worker[j].fd # worker[i].fd)
    /\ [][spawnI' = spawnI + 1
          => \A j \in Workers :
               worker[j].fd = worker'[spawnI].fd => ~Live(worker[j])]_vars

\* the second sweep point runs two live writers on the two files the first
\* point used
C18_Witness ==
    /\ ix = 2
    /\ Live(worker[0])
    /\ Live(worker[1])
    /\ worker[0].fd = Some(0)
    /\ worker[1].fd = Some(1)
    /\ worker[0].flen > 0
    /\ worker[1].flen > 0

---------------------------------------------------------------------------
(* SpecLoop: the loop of one writer_thread, for every block size the parser
   accepts.  The loop's control reads the quota and the results of write,
   sync_all and click only, so the Stats and the operation counts are left
   out of the writer's record here; main waits in w.join(). *)

\* the --block-size texts: "0", "1", "2", "3"
LoopBlockTexts == { <<"0">>, <<"1">>, <<"2">>, <<"3">> }

\* main has spawned writer 0 of the one sweep point and waits to join it
InitLoop ==
    /\ ArgsOff
    /\ StatsOff
    /\ \E b \in LoopBlockTexts, q \in 0..MaxQuota :
         /\ argv = [block_size |-> b, data_size |-> <<>>, nthreads |-> 1]
         /\ opt = Some([block_size |-> from_str(b).val,
                        data_size |-> SizeArgList(<<q>>), nthreads |-> 1])
         /\ xs = SweepList(<<q>>, get_blocks(from_str(b).val).val)
    /\ Len(xs) = 1
    /\ ix = 1
    /\ pcMain = "join"
    /\ spawnI = 1
    /\ joinI = 0
    /\ worker = [i \in Workers |->
                   IF i = 0
                   THEN [Context(1, xs[1][2], Quota(xs[1][1], 1))
                            EXCEPT !.fd = Some(make_data_file(0))]
                   ELSE Idle]
    /\ files = [i \in Workers |-> i = 0]
    /\ ss = StatsNew(0)
    /\ TOTAL = 0

\* writer_thread: ctxt.fd.write(block) returns Ok(block.len())
LoopWrite ==
    /\ worker[0].pc = "loop"
    /\ QuotaLeft(worker[0])
    /\ worker' = [worker EXCEPT ![0] =
                    [@ EXCEPT !.pc = "wrote", !.flen = @ + worker[0].block]]
    /\ UNCHANGED <<argVars, statVars, argv, opt, xs, ix, pcMain, spawnI, joinI, files, ss, TOTAL>>

\* writer_thread: ctxt.fd.write(block) returns a short count or an error
LoopWriteFails ==
    /\ worker[0].pc = "loop"
    /\ QuotaLeft(worker[0])
    /\ \/ \E n \in PartialCounts(worker[0].block) :
            worker' = [worker EXCEPT ![0] =
                         Failed([@ EXCEPT !.flen = @ + n], "partial write")]
       \/ worker' = [worker EXCEPT ![0] = Failed(@, "invalid write")]
    /\ UNCHANGED <<argVars, statVars, argv, opt, xs, ix, pcMain, spawnI, joinI, files, ss, TOTAL>>

\* writer_thread: ctxt.fd.sync_all() returns Ok
LoopSync ==
    /\ worker[0].pc = "wrote"
    /\ worker' = [worker EXCEPT ![0] = [@ EXCEPT !.pc = "synced"]]
    /\ UNCHANGED <<argVars, statVars, argv, opt, xs, ix, pcMain, spawnI, joinI, files, ss, TOTAL>>

\* writer_thread: ctxt.fd.sync_all()? returns the error
LoopSyncFails ==
    /\ worker[0].pc = "wrote"
    /\ worker' = [worker EXCEPT ![0] = Failed(@, "sync")]
    /\ UNCHANGED <<argVars, statVars, argv, opt, xs, ix, pcMain, spawnI, joinI, files, ss, TOTAL>>

\* writer_thread: ctxt.data_size -= block.len(); stats.click(..)? returns Ok
\* or the clock error
LoopRecord ==
    /\ worker[0].pc = "synced"
    /\ LET w == [worker[0] EXCEPT !.data_size = @ - worker[0].block]
       IN  \/ worker' = [worker EXCEPT ![0] = [w EXCEPT !.pc = "loop"]]
           \/ worker' = [worker EXCEPT ![0] = Failed(w, "time")]
    /\ UNCHANGED <<argVars, statVars, argv, opt, xs, ix, pcMain, spawnI, joinI, files, ss, TOTAL>>

\* writer_thread, after the loop: the metadata query, the add, Ok(stats); or
\* the panic of unwrap()
LoopFinish ==
    /\ worker[0].pc = "loop"
    /\ ~QuotaLeft(worker[0])
    /\ \/ /\ TOTAL' = FetchAdd(TOTAL, worker[0].flen)
          /\ worker' = [worker EXCEPT ![0] = [@ EXCEPT !.pc = "done"]]
       \/ /\ worker' = [worker EXCEPT ![0] = [@ EXCEPT !.pc = "panicked"]]
          /\ UNCHANGED TOTAL
    /\ UNCHANGED <<argVars, statVars, argv, opt, xs, ix, pcMain, spawnI, joinI, files, ss>>

NextLoop ==
    \/ LoopWrite
    \/ LoopWriteFails
    \/ LoopSync
    \/ LoopSyncFails
    \/ LoopRecord
    \/ LoopFinish
    \/ JoinWorker

\* the thread and main are scheduled as long as they can take a step
SpecLoop == InitLoop /\ [][NextLoop]_vars /\ WF_vars(NextLoop)

\* C19: for every block size the parser accepts, 0 among them, and every
\* quota, a writer whose write and sync calls all return ends, Done or
\* Failed (or panicked), and main's join on it returns.
C19_WriterEnds ==
    <>(Terminated(worker[0]) /\ pcMain = "plot")

---------------------------------------------------------------------------
(* Byte conservation of Stats::click, checked under SpecStats *)

\* the sample a closure makes of a pending total, given the samples before
SampleFrom(prev, pending) ==
    IF prev = <<>> THEN pending
    ELSE (prev[Len(prev)] + pending) \div 2

\* C20: the size of every call of click is added to the pending total of
\* exactly one window: a call that does not close a window adds its size to
\* the pending total, and at a closure the pending total the sample is made
\* of is the sum of the sizes of the calls since the previous boundary, the
\* closing call's among them.
C20_BytesConserved ==
    /\ (last.op = "click" /\ last.el_second.ok /\ ~ClosedWindow)
         => st.tp_current = last.pre.tp_current + last.size
    /\ ClosedWindow
         => st.throughputs[Len(st.throughputs)]
              = SampleFrom(last.pre.throughputs,
                           last.pre.tp_current + last.size)

=============================================================================
